---------------------------- MODULE Spec2Model ----------------------------
(***************************************************************************)
(* The polydispersity integrator of sasmodels/kernel_iq.c as a state       *)
(* machine.  One kernel call is Entry (lines 216-356), then per cube point *)
(* LoopBody (lines 361-444) and Advance (lines 445-475 and the loop heads  *)
(* they re-enter), then the store of pd_norm (line 479).                   *)
(*                                                                         *)
(* Numbers.  A double is modelled as an integer; the polydispersity        *)
(* arithmetic (weights, products, sums) is exact.  Results that are        *)
(* irrational in the source (sin, cos, sqrt, the spin weights) are rounded *)
(* to multiples of 1/U, every product of two such numbers is rounded       *)
(* again, as a floating-point unit rounds each operation.  NaN is the      *)
(* result of sqrt of a negative number and propagates through + and *.     *)
(*                                                                         *)
(* The preprocessor symbols of one specialised build (MAX_PD, NUM_PARS,    *)
(* NUM_MAGNETIC, MAGNETIC, the CALL_IQ* dispatch, MAGNETIC_PARS,           *)
(* CALL_VOLUME, INVALID) are the fields of the variable build.             *)
(***************************************************************************)
EXTENDS Integers, Sequences, FiniteSets, TLC

(* ------------------------------ bounds -------------------------------- *)
\* MAX_PD ranges over 0..MaxPD
MaxPD == 2
\* pd_length[d] ranges over 1..MaxPdLen
MaxPdLen == 3
\* num_eval is at most MaxEval
MaxEval == 4
\* nq ranges over 1..MaxNq
MaxNq == 2
\* NUM_MAGNETIC ranges over 1..MaxMagnetic
MaxMagnetic == 4
\* weights are scaled by the factors 2..MaxScale
MaxScale == 3

(* ------------------------ fixed-point numerics ------------------------ *)
\* sin, cos, sqrt and the spin weights are held in tenths
U == 10
\* up_frac_i and up_frac_f are held in halves
FracUnit == 2
\* the result of sqrt of a negative number
NaN == -1000000

VARIABLES
    build,      \* the preprocessor symbols of this build
    details,    \* ProblemDetails
    values,     \* the parameter pool
    q,          \* the q vector
    nq,         \* number of q values
    cutoff,     \* cutoff in the weight product
    result,     \* the caller's result buffer, nq+1 long
    fr,         \* the locals of the call in progress
    pc,         \* "idle" | "body" | "omp" | "advance" | "exit"
    wk,         \* the workers of an OpenMP q loop (SpecOmp only)
    last,       \* what the last LoopBody saw and did (history)
    added,      \* what the current call's cube points added (history)
    visited,    \* the cube points evaluated by the current call (history)
    result_in,  \* the result buffer as the current call found it (history)
    chain,      \* pd_stop of the last call while the calls so far are
                \* in-order non-empty slices from 0, else -1 (history)
    ncalls      \* number of calls made (history)

vars == <<build, details, values, q, nq, cutoff, result, fr, pc, wk, last,
          added, visited, result_in, chain, ncalls>>

Args == [build |-> build, details |-> details, values |-> values, q |-> q,
         nq |-> nq, cutoff |-> cutoff]

RoundDiv(a, b) == (2 * a + b) \div (2 * b)

FMul(a, b) == IF a = NaN \/ b = NaN THEN NaN ELSE a * b

FAdd(a, b) == IF a = NaN \/ b = NaN THEN NaN ELSE a + b

\* a * b for two numbers held in units of 1/U
FxMul(a, b) == RoundDiv(a * b, U)

RECURSIVE ISqrtFrom(_, _)
ISqrtFrom(n, r) == IF (r + 1) * (r + 1) > n THEN r ELSE ISqrtFrom(n, r + 1)

\* sqrt of a number held in units of 1/U; NaN below zero
Sqrt(x) == IF x < 0 THEN NaN ELSE ISqrtFrom(x * U, 0)

SinDeg == [a \in {0, 30, 60, 90} |-> CASE a = 0 -> 0 [] a = 30 -> 5
                                        [] a = 60 -> 9 [] a = 90 -> 10]

CosDeg == [a \in {0, 30, 60, 90} |-> CASE a = 0 -> 10 [] a = 30 -> 9
                                        [] a = 60 -> 5 [] a = 90 -> 0]

\* SINCOS(angle*M_PI_180, s, c), the angle in degrees
SINCOS(deg) == IF deg < 0 THEN [sin |-> -SinDeg[-deg], cos |-> CosDeg[-deg]]
               ELSE [sin |-> SinDeg[deg], cos |-> CosDeg[deg]]

(* --------------------------- magnetic helpers -------------------------- *)
clip(value, low, high) ==
    IF value < low THEN low ELSE IF value > high THEN high ELSE value

\* spins[0..3] = dd, du, ud, uu in units of 1/U; in_spin, out_spin in halves
set_spins(in_spin0, out_spin0) ==
    LET in_spin == clip(in_spin0, 0, FracUnit)
        out_spin == clip(out_spin0, 0, FracUnit)
        root4(x) == ISqrtFrom(ISqrtFrom(x * 2500, 0), 0)
    IN  [index \in 0..3 |->
            CASE index = 0 -> root4((FracUnit - in_spin) * (FracUnit - out_spin))
              [] index = 1 -> root4((FracUnit - in_spin) * out_spin)
              [] index = 2 -> root4(in_spin * (FracUnit - out_spin))
              [] index = 3 -> root4(in_spin * out_spin)]

\* p is held in units of 1/U
mag_sld(qx, qy, p, mx, my, sld) ==
    LET perp == qy * mx - qx * my
    IN  sld + RoundDiv(perp * p, U)

(* ----------------------------- model kernel ---------------------------- *)
RECURSIVE Digest(_, _)
Digest(p, n) == IF n = 0 THEN 0 ELSE (n + 1) * p[n - 1] + Digest(p, n - 1)

\* CALL_IQ, CALL_IQ_A: a form factor of q and the whole parameter table
Iq(b, qv, table) == qv + Digest(table, b.NUM_PARS)

\* CALL_IQ_AC
Iqac(b, qa, qc, table) ==
    IF qa = NaN THEN NaN ELSE qa + 3 * qc + Digest(table, b.NUM_PARS)

RECURSIVE SumOver(_, _)
SumOver(S, f) ==
    IF S = {} THEN 0
    ELSE LET x == CHOOSE y \in S : TRUE IN f[x] + SumOver(S \ {x}, f)

cube(x) == x * x * x

M_4PI_3 == 4

\* models/core_shell_sphere.c: M_4PI_3 * cube(radius + thickness)
form_volume(b, table) == M_4PI_3 * cube(SumOver(b.vol_pars, table))

\* INVALID(local_values.table); undefined when inv_par = -1
INVALID(b, table) == b.inv_par >= 0 /\ table[b.inv_par] > b.inv_max


(* ------------------------- orientation transform ----------------------- *)
\* the value view_direct hands to sqrt, qx and qy in units of 1/U
Radicand(qx, qy, theta, phi, table_theta, table_phi) ==
    LET v == SINCOS(theta)
        w == SINCOS(phi)
        qa == FxMul(FxMul(qx, w.cos), v.cos) + FxMul(FxMul(qy, w.sin), v.cos)
        qb == -FxMul(qx, w.sin) + FxMul(qy, w.cos)
        qc == FxMul(FxMul(qx, v.sin), w.cos) + FxMul(FxMul(qy, w.sin), v.sin)
        jv == SINCOS(table_theta)
        jw == SINCOS(table_phi)
        dqc == FxMul(qa, jv.sin) - FxMul(FxMul(qb, jw.sin), jv.cos)
               + FxMul(FxMul(qc, jw.cos), jv.cos)
    IN  [dqc |-> dqc, arg |-> -FxMul(dqc, dqc) + FxMul(qx, qx) + FxMul(qy, qy)]

\* view_direct, oriented symmetric: qx, qy are the q vector's components
view_direct(b, d, qx, qy, theta, phi, table) ==
    LET r == Radicand(qx * U, qy * U, theta, phi, table[d.theta_par],
                      table[d.theta_par + 1])
        dqa == Sqrt(r.arg)
    IN  Iqac(b, dqa, r.dqc, table)

(* ------------------------------ the pool ------------------------------- *)
pd_value(c, d, i) == c.values[c.build.NUM_VALUES + c.details.pd_offset[d] + i]

\* a pool read that would take the weight from the grid of values
ValueAsWeight(c, d, i) == pd_value(c, d, i)

pd_weight(c, d, i) ==
    c.values[c.build.NUM_VALUES + c.details.num_weights
             + c.details.pd_offset[d] + i]

\* a loop head that would take the weight of its own level alone
OwnWeightOnly(c, f, d) == 1

(* --------------------------- hypercube walker -------------------------- *)
\* weight of the level above d: weight5 = 1.0 (and weight1 = 1.0 ... when
\* that level is compiled out)
WeightAbove(c, f, d) == IF d + 1 < c.build.MAX_PD THEN f.weight[d + 1] ELSE 1

\* the head of the while loop of level d: lines 319-320, 327-328, ...
LoopHead(c, f, d) ==
    [f EXCEPT !.local_values[c.details.pd_par[d]] = pd_value(c, d, f.i[d]),
              !.weight[d] = pd_weight(c, d, f.i[d]) * WeightAbove(c, f, d)]

\* entering the loops of levels d, d-1, ..., 0 in turn
RECURSIVE Descend(_, _, _)
Descend(c, f, d) ==
    IF d < 0 THEN f ELSE Descend(c, LoopHead(c, f, d), d - 1)

\* a kernel that would never zero the buffer
KeepBuffer(c, start, res) == res

\* the result buffer after lines 261-266
SeedResult(c, start, res) ==
    IF start = 0 THEN [k \in 0..c.nq |-> IF k < c.nq THEN 0 ELSE res[k]]
    ELSE res

\* pd_norm after line 260
SeedNorm(c, start, res) == IF start = 0 THEN 0 ELSE res[c.nq]

\* the locals when the first cube point is about to be evaluated
Entry(c, start, stop, res) ==
    LET b == c.build
        NP == b.NUM_PARS
        mspin == SINCOS(-c.values[NP + 4])
        f0 == [pd_start |-> start,
               pd_stop |-> stop,
               local_values |-> [s \in 0..(NP - 1) |-> c.values[2 + s]],
               spins |-> IF b.MAGNETIC
                         THEN set_spins(c.values[NP + 2], c.values[NP + 3])
                         ELSE [index \in 0..3 |-> 0],
               cos_mspin |-> IF b.MAGNETIC THEN mspin.cos ELSE 0,
               sin_mspin |-> IF b.MAGNETIC THEN mspin.sin ELSE 0,
               theta |-> IF b.CALL = "IQ_AC"
                         THEN c.values[c.details.theta_par + 2] ELSE 0,
               phi |-> IF b.CALL = "IQ_AC"
                       THEN c.values[c.details.theta_par + 3] ELSE 0,
               pd_norm |-> SeedNorm(c, start, res),
               i |-> [d \in 0..(b.MAX_PD - 1) |->
                        (start \div c.details.pd_stride[d])
                            % c.details.pd_length[d]],
               weight |-> [d \in 0..(b.MAX_PD - 1) |-> 1],
               step |-> start]
    IN  Descend(c, f0, b.MAX_PD - 1)

\* lines 445-475 after ++step with step < pd_stop, from level d outwards:
\* ++i_d and the loop test, i_d = 0 and the next level when it fails
RECURSIVE Carry(_, _, _)
Carry(c, f, d) ==
    IF d >= c.build.MAX_PD THEN [f |-> f, pc |-> "exit"]
    ELSE IF f.i[d] + 1 < c.details.pd_length[d]
         THEN [f |-> Descend(c, [f EXCEPT !.i[d] = f.i[d] + 1], d),
               pc |-> "body"]
         ELSE Carry(c, [f EXCEPT !.i[d] = 0], d + 1)

\* lines 445-475: ++step, the breaks, the increments
Advance(c, f) ==
    LET g == [f EXCEPT !.step = f.step + 1]
    IN  IF g.step >= g.pd_stop
        THEN [f |-> [g EXCEPT !.i = [d \in DOMAIN g.i |-> 0]], pc |-> "exit"]
        ELSE Carry(c, g, 0)

\* weight0 of line 367
Weight0(c, f) == IF c.build.MAX_PD > 0 THEN f.weight[0] ELSE 1

(* ----------------------------- the q loop ------------------------------ *)
M1(b) == b.NUM_PARS + 5

M2(b) == b.NUM_PARS + 8

M3(b) == b.NUM_PARS + 13

\* the pool offset the SLD rewrite of the sk-th magnetic parameter is given:
\* M1, M2, M3 on the unrolled path, M1+3*sk in the loop over slds[]
MOffset(b, sk) ==
    IF b.NUM_MAGNETIC <= 3
    THEN CASE sk = 0 -> M1(b) [] sk = 1 -> M2(b) [] sk = 2 -> M3(b)
    ELSE M1(b) + 3 * sk

\* the parameter slot it is given: MAGNETIC_PAR1.. or slds[sk]
SldOffset(b, sk) == b.slds[sk]

\* the right-hand side of the SLD macro
SLD(c, qx, qy, xs, pk, index, axis, M_offset, sld_offset) ==
    LET spin_flip == index = 1 \/ index = 2
        inner == IF axis = 1
                 THEN (IF index = 1 THEN -c.values[M_offset + 2]
                       ELSE c.values[M_offset + 2])
                 ELSE mag_sld(qx, qy, pk, c.values[M_offset],
                              c.values[M_offset + 1],
                              IF spin_flip THEN 0 ELSE c.values[sld_offset + 2])
    IN  RoundDiv(xs * inner, U)

\* lines 402-415: the rewrites of magnetic parameters sk, sk+1, ...
RECURSIVE RewriteSLDs(_, _, _, _, _, _, _, _, _)
RewriteSLDs(c, lv, qx, qy, xs, pk, index, axis, sk) ==
    IF sk >= c.build.NUM_MAGNETIC THEN lv
    ELSE RewriteSLDs(c,
            [lv EXCEPT ![SldOffset(c.build, sk)] =
                SLD(c, qx, qy, xs, pk, index, axis, MOffset(c.build, sk),
                    SldOffset(c.build, sk))],
            qx, qy, xs, pk, index, axis, sk + 1)

\* p[0..3] of lines 383-386, in units of 1/U
Polarization(f, qx, qy, qsq) ==
    LET p0 == RoundDiv(qy * f.cos_mspin + qx * f.sin_mspin, qsq)
        p1 == RoundDiv(qy * f.sin_mspin - qx * f.cos_mspin, qsq)
    IN  [index \in 0..3 |-> CASE index = 0 -> p0 [] index = 3 -> -p0
                              [] OTHER -> p1]

\* the (index, axis) pairs of lines 388-393 in the order the loops take them
SpinAxes == <<<<0, 0>>, <<1, 0>>, <<1, 1>>, <<2, 0>>, <<2, 1>>, <<3, 0>>>>

\* lines 416-422 and 428-437: the form factor call of this dispatch
CallIq(c, f, qx, qy, table) ==
    CASE c.build.CALL = "IQ" -> Iq(c.build, qx, table)
      [] c.build.CALL = "IQ_A" ->
            Iq(c.build, Sqrt((qx * qx + qy * qy) * U), table)
      [] c.build.CALL = "IQ_AC" ->
            view_direct(c.build, c.details, qx, qy, f.theta, f.phi, table)

\* the value the call hands to sqrt, as a set (empty when it takes no sqrt
\* in view_direct)
CallRadicand(c, f, qx, qy, table) ==
    IF c.build.CALL = "IQ_AC"
    THEN {Radicand(qx * U, qy * U, f.theta, f.phi,
                   table[c.details.theta_par],
                   table[c.details.theta_par + 1]).arg}
    ELSE {}

\* one pass of the body of the axis loop, lines 394-422, for SpinAxes[t];
\* st = [lv, s, rads]: the parameter block, scattering, the sqrt arguments
MagCall(c, f, st, qx, qy, lv) ==
    [lv |-> lv,
     s |-> FAdd(st.s, CallIq(c, f, qx, qy, lv)),
     rads |-> st.rads \cup CallRadicand(c, f, qx, qy, lv)]

MagStep(c, f, st, qx, qy, t) ==
    IF f.spins[SpinAxes[t][1]] > 0
    THEN MagCall(c, f, st, qx, qy,
            RewriteSLDs(c, st.lv, qx, qy, f.spins[SpinAxes[t][1]],
                Polarization(f, qx, qy, qx * qx + qy * qy)[SpinAxes[t][1]],
                SpinAxes[t][1], SpinAxes[t][2], 0))
    ELSE st

RECURSIVE MagLoop(_, _, _, _, _, _)
MagLoop(c, f, st, qx, qy, t) ==
    IF t > Len(SpinAxes) THEN st
    ELSE MagLoop(c, f, MagStep(c, f, st, qx, qy, t), qx, qy, t + 1)

\* lines 374-439: scattering for q_index, and the parameter block after it
Scattering(c, f, lv, q_index) ==
    IF c.build.MAGNETIC
    THEN LET qx == c.q[2 * q_index]
             qy == c.q[2 * q_index + 1]
         IN  IF qx * qx + qy * qy > 0
             THEN MagLoop(c, f, [lv |-> lv, s |-> 0, rads |-> {}], qx, qy, 1)
             ELSE [lv |-> lv, s |-> 0, rads |-> {}]
    ELSE LET qx == IF c.build.CALL = "IQ" THEN c.q[q_index]
                   ELSE c.q[2 * q_index]
             qy == IF c.build.CALL = "IQ" THEN 0 ELSE c.q[2 * q_index + 1]
         IN  [lv |-> lv, s |-> CallIq(c, f, qx, qy, lv),
              rads |-> CallRadicand(c, f, qx, qy, lv)]

\* line 441, r the scattering of q_index = k
Accumulate(c, f, st, k, r) ==
    [lv |-> r.lv,
     result |-> [st.result EXCEPT ![k] = FAdd(@, FMul(Weight0(c, f), r.s))],
     rads |-> st.rads \cup r.rads]

\* lines 373-442 for q_index = k, k+1, ..., nq-1; st = [lv, result, rads]
RECURSIVE QLoop(_, _, _, _)
QLoop(c, f, st, k) ==
    IF k >= c.nq THEN st
    ELSE QLoop(c, f, Accumulate(c, f, st, k, Scattering(c, f, st.lv, k)),
               k + 1)

\* a cutoff test that would look at each dimension's weight
EveryWeightAboveCutoff(c, f) ==
    \A d \in 0..(c.build.MAX_PD - 1) : pd_weight(c, d, f.i[d]) > c.cutoff

\* line 367
AboveCutoff(c, f) == Weight0(c, f) > c.cutoff

\* lines 361-444: one cube point
\* line 368
AddNorm(c, f) ==
    f.pd_norm + Weight0(c, f) * form_volume(c.build, f.local_values)

\* the locals and the buffer after the q loop left r
AfterQLoop(f, norm, r) ==
    [f |-> [f EXCEPT !.pd_norm = norm, !.local_values = r.lv],
     result |-> r.result, rads |-> r.rads]

LoopBody(c, f, res) ==
    IF ~INVALID(c.build, f.local_values) /\ AboveCutoff(c, f)
    THEN AfterQLoop(f, AddNorm(c, f),
            QLoop(c, f, [lv |-> f.local_values, result |-> res,
                         rads |-> {}], 0))
    ELSE [f |-> f, result |-> res, rads |-> {}]

\* line 479
StoreNorm(c, f, res) == [res EXCEPT ![c.nq] = f.pd_norm]

\* one whole call of the kernel, run to its end
RECURSIVE RunFrom(_, _, _), RunOn(_, _), RunNext(_, _, _)
RunFrom(c, f, res) == RunOn(c, LoopBody(c, f, res))

RunOn(c, b) == RunNext(c, Advance(c, b.f), b.result)

RunNext(c, a, res) ==
    IF a.pc = "exit" THEN StoreNorm(c, a.f, res) ELSE RunFrom(c, a.f, res)

KERNEL_NAME(c, start, stop, res) ==
    RunFrom(c, Entry(c, start, stop, res), SeedResult(c, start, res))

(* ------------------ the caller: descriptor and pool -------------------- *)
RECURSIVE ProdTo(_, _)
ProdTo(L, d) == IF d = 0 THEN 1 ELSE L[d - 1] * ProdTo(L, d - 1)

RECURSIVE SumTo(_, _)
SumTo(L, d) == IF d = 0 THEN 0 ELSE L[d - 1] + SumTo(L, d - 1)

\* the grid lengths of a cube with D dimensions, the first na of them active
Lens(D, na) ==
    {L \in [0..(D - 1) -> 1..MaxPdLen] :
        /\ \A d \in 0..(D - 1) : (d < na => L[d] >= 2) /\ (d >= na => L[d] = 1)
        /\ ProdTo(L, D) <= MaxEval}

\* which parameter each dimension drives
PdPar(sel, theta_par) ==
    [d \in 0..2 |-> CASE sel = 0 -> d
                      [] sel = 1 -> (d + 2) % 3
                      [] sel = 2 -> (3 - d) % 3
                      [] sel = 3 -> IF d = 0 THEN theta_par ELSE d - 1]

MakeBuild(call, magnetic, D, N, vol_pars, inv_par) ==
    LET NP == 2 + N + (IF call = "IQ_AC" THEN 2 ELSE 0)
    IN  [MAX_PD |-> D, NUM_PARS |-> NP, NUM_MAGNETIC |-> N,
         MAGNETIC |-> magnetic, CALL |-> call,
         slds |-> [sk \in 0..(N - 1) |-> 2 + sk],
         vol_pars |-> vol_pars, inv_par |-> inv_par, inv_max |-> 1,
         NUM_VALUES |-> NP + 5 + 3 * N]

MakeDetails(b, L, na, sel) ==
    LET D == b.MAX_PD
        theta_par == IF b.CALL = "IQ_AC" THEN 2 + b.NUM_MAGNETIC ELSE -1
    IN  [pd_par |-> [d \in 0..(D - 1) |-> PdPar(sel, theta_par)[d]],
         pd_length |-> L,
         pd_offset |-> [d \in 0..(D - 1) |-> SumTo(L, d)],
         pd_stride |-> [d \in 0..(D - 1) |-> ProdTo(L, d)],
         num_eval |-> ProdTo(L, D),
         num_weights |-> SumTo(L, D),
         num_active |-> na,
         theta_par |-> theta_par]

\* the nominal value of parameter slot s: radius, thickness, the SLDs,
\* then theta and phi
Nominal(b, det, ang, s) ==
    CASE s <= 1 -> 1
      [] s = det.theta_par -> ang[1]
      [] s = det.theta_par + 1 -> ang[2]
      [] OTHER -> s

GridWeight(wsel, na, d, i) ==
    IF d >= na THEN 1
    ELSE CASE wsel = 0 -> 1 [] wsel = 1 -> 1 + ((i + d) % 2) [] wsel = 2 -> i

MakeValues(b, det, ang, up, msel, wsel) ==
    LET NP == b.NUM_PARS
        NV == b.NUM_VALUES
        nw == det.num_weights
        DimOf(o) == CHOOSE d \in 0..(b.MAX_PD - 1) :
                        det.pd_offset[d] <= o
                        /\ o < det.pd_offset[d] + det.pd_length[d]
        GridValue(d, i) ==
            IF det.pd_par[d] \in {det.theta_par, det.theta_par + 1}
            THEN 30 * i
            ELSE Nominal(b, det, ang, det.pd_par[d]) + i
    IN  [x \in 0..(NV + 2 * nw - 1) |->
            CASE x = 0 -> 1
              [] x = 1 -> 0
              [] x \in 2..(NP + 1) -> Nominal(b, det, ang, x - 2)
              [] x = NP + 2 -> up[1]
              [] x = NP + 3 -> up[2]
              [] x = NP + 4 -> up[3]
              [] x \in (NP + 5)..(NV - 1) ->
                    IF msel = 0 THEN 0
                    ELSE 1 + ((((x - NP - 5) \div 3) + ((x - NP - 5) % 3)) % 2)
              [] x \in NV..(NV + nw - 1) ->
                    GridValue(DimOf(x - NV), x - NV - det.pd_offset[DimOf(x - NV)])
              [] OTHER ->
                    GridWeight(wsel, det.num_active, DimOf(x - NV - nw),
                               x - NV - nw - det.pd_offset[DimOf(x - NV - nw)])]

\* the q vector: nq scalars, or nq pairs (qx, qy)
MakeQ(call, n, qsel) ==
    IF call = "IQ" THEN [k \in 0..(n - 1) |-> k + 1]
    ELSE [x \in 0..(2 * n - 1) |->
            LET k == x \div 2
            IN  IF qsel = 0
                THEN (IF (x + k) % 2 = 0 THEN 1 ELSE 0)
                ELSE (IF k = 0 THEN 0 ELSE 1)]

IdleFrame(c) ==
    [pd_start |-> 0, pd_stop |-> 0,
     local_values |-> [s \in 0..(c.build.NUM_PARS - 1) |-> 0],
     spins |-> [index \in 0..3 |-> 0], cos_mspin |-> 0, sin_mspin |-> 0,
     theta |-> 0, phi |-> 0, pd_norm |-> 0,
     i |-> [d \in 0..(c.build.MAX_PD - 1) |-> 0],
     weight |-> [d \in 0..(c.build.MAX_PD - 1) |-> 1], step |-> 0]

NoLast(c) ==
    [lv |-> [s \in 0..(c.build.NUM_PARS - 1) |-> 0],
     i |-> [d \in 0..(c.build.MAX_PD - 1) |-> 0],
     result |-> [k \in 0..c.nq |-> 0], pd_norm |-> 0, rads |-> {}]

InitWith(b, det, vals, qv, n, cut, garbage) ==
    /\ build = b
    /\ details = det
    /\ values = vals
    /\ q = qv
    /\ nq = n
    /\ cutoff = cut
    /\ result = [k \in 0..n |-> garbage * (k + 3)]
    /\ fr = IdleFrame([build |-> b, nq |-> n])
    /\ pc = "idle"
    /\ wk = <<>>
    /\ last = NoLast([build |-> b, nq |-> n])
    /\ added = [k \in 0..n |-> 0]
    /\ visited = <<>>
    /\ result_in = [k \in 0..n |-> garbage * (k + 3)]
    /\ chain = 0
    /\ ncalls = 0

Dispatches == {<<"IQ", FALSE>>, <<"IQ_A", FALSE>>, <<"IQ_AC", FALSE>>,
               <<"IQ_A", TRUE>>, <<"IQ_AC", TRUE>>}

\* CALL_VOLUME's parameters and INVALID's parameter
ModelKinds == {<<{0, 1}, -1>>, <<{0, 1}, 0>>, <<{0, 2}, -1>>, <<{0, 1}, 2>>}

\* cutoff and the weight pattern
WeightKinds == {<<0, 0>>, <<1, 1>>, <<0, 2>>}

Init ==
    \E disp \in Dispatches, D \in 0..MaxPD, mk \in ModelKinds,
       wkind \in WeightKinds, n \in 1..MaxNq :
    \E na \in 0..D, sel \in {0, 1, 3}, ang \in {<<0, 0>>, <<30, 30>>} :
    \E L \in Lens(D, na) :
        LET b == MakeBuild(disp[1], disp[2], D, 1, mk[1], mk[2])
            det == MakeDetails(b, L, na, sel)
        IN  /\ sel = 3 => disp[1] = "IQ_AC"
            /\ disp[1] # "IQ_AC" => ang = <<0, 0>>
            /\ InitWith(b, det,
                        MakeValues(b, det, ang, <<1, 1, 0>>, 1, wkind[2]),
                        MakeQ(disp[1], n, 0), n, wkind[1], 1)

(* ------------------------------ the steps ------------------------------ *)
LinearIndex(det, i) ==
    LET t == [d \in DOMAIN i |-> i[d] * det.pd_stride[d]]
    IN  SumOver(DOMAIN i, t)

\* the kernel is entered with the slice [start, stop)
Call(start, stop) ==
    /\ pc = "idle"
    /\ ncalls = 0 \/ (chain > 0 /\ start = chain /\ start < stop)
    /\ fr' = Entry(Args, start, stop, result)
    /\ result' = SeedResult(Args, start, result)
    /\ result_in' = result
    /\ visited' = <<>>
    /\ added' = [k \in 0..nq |-> 0]
    /\ chain' = IF start = chain /\ start < stop THEN stop ELSE -1
    /\ ncalls' = ncalls + 1
    /\ pc' = "body"
    /\ UNCHANGED <<build, details, values, q, nq, cutoff, wk, last>>

\* b is what LoopBody makes of the locals and the buffer
\* and z what it makes of them and a buffer of zeros
BodyDoes(b, z) ==
    /\ fr' = b.f
    /\ result' = b.result
    /\ last' = [lv |-> fr.local_values, i |-> fr.i, result |-> result,
                pd_norm |-> fr.pd_norm, rads |-> b.rads]
    /\ added' = [k \in 0..nq |->
                    IF k < nq THEN FAdd(added[k], z.result[k])
                    ELSE added[k] + (z.f.pd_norm - fr.pd_norm)]

\* one cube point is evaluated
Body ==
    /\ pc = "body"
    /\ BodyDoes(LoopBody(Args, fr, result),
                LoopBody(Args, fr, [k \in 0..nq |-> 0]))
    /\ visited' = Append(visited, LinearIndex(details, fr.i))
    /\ pc' = "advance"
    /\ UNCHANGED <<build, details, values, q, nq, cutoff, wk, result_in,
                   chain, ncalls>>

Moves(a) == fr' = a.f /\ pc' = a.pc

\* step is incremented and the loops move to the next point or end
Step ==
    /\ pc = "advance"
    /\ Moves(Advance(Args, fr))
    /\ UNCHANGED <<build, details, values, q, nq, cutoff, result, wk, last,
                   added, visited, result_in, chain, ncalls>>

\* the norm is stored and the kernel returns
Return ==
    /\ pc = "exit"
    /\ result' = StoreNorm(Args, fr, result)
    /\ pc' = "idle"
    /\ UNCHANGED <<build, details, values, q, nq, cutoff, fr, wk, last,
                   added, visited, result_in, chain, ncalls>>

Next ==
    \/ \E start \in 0..details.num_eval :
       \E stop \in start..details.num_eval : Call(start, stop)
    \/ Body
    \/ Step
    \/ Return

Spec == Init /\ [][Next]_vars

(* -------------------- the magnetic builds, widened -------------------- *)
\* up_frac_i, up_frac_f in halves and up_angle in degrees
UpKinds == {<<2, 2, 0>>, <<1, 1, 90>>, <<0, 0, 0>>, <<3, -1, 0>>}

\* MAX_PD >= 1 here: the unrolled path for NUM_MAGNETIC = 3 reads the pool
\* up to NUM_PARS+15, which is inside the pool once it holds one
\* polydispersity value and weight
InitMag ==
    \E call \in {"IQ_A", "IQ_AC"}, D \in 1..MaxPD, N \in 1..MaxMagnetic,
       up \in UpKinds, n \in 1..MaxNq :
    \E na \in 0..D, sel \in 0..1, msel \in 0..1, qsel \in 0..1 :
    \E L \in Lens(D, na) :
        LET b == MakeBuild(call, TRUE, D, N, {0, 1}, -1)
            det == MakeDetails(b, L, na, sel)
        IN  InitWith(b, det, MakeValues(b, det, <<0, 0>>, up, msel, 0),
                     MakeQ(call, n, qsel), n, 0, 1)

SpecMag == InitMag /\ [][Next]_vars

(* ------------- the q loop under USE_OPENMP, magnetic builds ------------ *)
\* Lines 370-373 hand the iterations of the q loop to the threads of a
\* team; local_values, spins and result are shared by the team.  Here one
\* thread takes each q_index.  wk[k] is the thread of q_index k: t its place
\* in SpinAxes, s its scattering, wrote the parameter block as its last SLD
\* rewrite left it.

\* the first place t' >= t of SpinAxes whose spin weight passes line 390
RECURSIVE NextT(_, _)
NextT(f, t) ==
    IF t > Len(SpinAxes) THEN t
    ELSE IF f.spins[SpinAxes[t][1]] > 0 THEN t ELSE NextT(f, t + 1)

Qsq(c, k) == c.q[2 * k] * c.q[2 * k] + c.q[2 * k + 1] * c.q[2 * k + 1]

Thread(c, f, k) ==
    LET t == IF Qsq(c, k) > 0 THEN NextT(f, 1) ELSE Len(SpinAxes) + 1
    IN  [t |-> t, s |-> 0, wrote |-> f.local_values,
         at |-> IF t > Len(SpinAxes) THEN "store" ELSE "write"]

\* lines 361-372: the point is skipped, or the team starts on the q loop
Fork ==
    /\ pc = "body"
    /\ IF ~INVALID(build, fr.local_values) /\ AboveCutoff(Args, fr)
       THEN /\ fr' = [fr EXCEPT !.pd_norm = AddNorm(Args, fr)]
            /\ wk' = [k \in 0..(nq - 1) |-> Thread(Args, fr, k)]
            /\ pc' = "qloop"
       ELSE /\ pc' = "advance"
            /\ UNCHANGED <<fr, wk>>
    /\ visited' = Append(visited, LinearIndex(details, fr.i))
    /\ UNCHANGED <<build, details, values, q, nq, cutoff, result, last,
                   added, result_in, chain, ncalls>>

Rewritten(k) ==
    RewriteSLDs(Args, fr.local_values, q[2 * k], q[2 * k + 1],
                fr.spins[SpinAxes[wk[k].t][1]],
                Polarization(fr, q[2 * k], q[2 * k + 1],
                             Qsq(Args, k))[SpinAxes[wk[k].t][1]],
                SpinAxes[wk[k].t][1], SpinAxes[wk[k].t][2], 0)

Wrote(k, lv) ==
    /\ fr' = [fr EXCEPT !.local_values = lv]
    /\ wk' = [wk EXCEPT ![k].wrote = lv, ![k].at = "call"]

\* lines 397-415: thread k rewrites the SLD slots of the shared block
WriteSLDs(k) ==
    /\ pc = "qloop"
    /\ wk[k].at = "write"
    /\ Wrote(k, Rewritten(k))
    /\ UNCHANGED <<build, details, values, q, nq, cutoff, result, pc, last,
                   added, visited, result_in, chain, ncalls>>

Called(k, t) ==
    wk' = [wk EXCEPT ![k].s = FAdd(@, CallIq(Args, fr, q[2 * k],
                                             q[2 * k + 1], fr.local_values)),
                     ![k].t = t,
                     ![k].at = IF t > Len(SpinAxes) THEN "store"
                               ELSE "write"]

\* lines 416-422: thread k calls the form factor on the shared block
CallF(k) ==
    /\ pc = "qloop"
    /\ wk[k].at = "call"
    /\ Called(k, NextT(fr, wk[k].t + 1))
    /\ UNCHANGED <<build, details, values, q, nq, cutoff, result, fr, pc,
                   last, added, visited, result_in, chain, ncalls>>

\* line 441
Store(k) ==
    /\ pc = "qloop"
    /\ wk[k].at = "store"
    /\ result' = [result EXCEPT
                    ![k] = FAdd(@, FMul(Weight0(Args, fr), wk[k].s))]
    /\ wk' = [wk EXCEPT ![k].at = "done"]
    /\ UNCHANGED <<build, details, values, q, nq, cutoff, fr, pc, last,
                   added, visited, result_in, chain, ncalls>>

\* line 442: the end of the parallel region
Join ==
    /\ pc = "qloop"
    /\ \A k \in 0..(nq - 1) : wk[k].at = "done"
    /\ wk' = <<>>
    /\ pc' = "advance"
    /\ UNCHANGED <<build, details, values, q, nq, cutoff, result, fr, last,
                   added, visited, result_in, chain, ncalls>>

\* one, two and three of the six (spin, axis) passes taken
OmpUpKinds == {<<2, 2, 0>>, <<2, 0, 90>>, <<3, 1, 0>>}

InitOmp ==
    \E call \in {"IQ_A", "IQ_AC"}, D \in 0..1, up \in OmpUpKinds,
       wkind \in {<<0, 0>>, <<1, 1>>}, n \in 1..MaxNq :
    \E na \in 0..D, msel \in 0..1 :
    \E L \in Lens(D, na) :
        LET b == MakeBuild(call, TRUE, D, 1, {0, 1}, -1)
            det == MakeDetails(b, L, na, 0)
        IN  InitWith(b, det,
                     MakeValues(b, det, <<0, 0>>, up, msel, wkind[2]),
                     MakeQ(call, n, 0), n, wkind[1], 1)

NextOmp ==
    \/ \E start \in 0..details.num_eval :
       \E stop \in start..details.num_eval : Call(start, stop)
    \/ Fork
    \/ \E k \in 0..(nq - 1) : WriteSLDs(k)
    \/ \E k \in 0..(nq - 1) : CallF(k)
    \/ \E k \in 0..(nq - 1) : Store(k)
    \/ Join
    \/ Step
    \/ Return

SpecOmp == InitOmp /\ [][NextOmp]_vars

(* ------------------------------ properties ----------------------------- *)
Returned == pc = "idle" /\ ncalls > 0

\* the linear indices of the slice [pd_start, pd_stop) in increasing order
Slice(f) == [j \in 1..(f.pd_stop - f.pd_start) |-> f.pd_start + j - 1]

\* the product of the weights of all dimensions at the point i
PointWeight(c, i) ==
    LET t == [d \in 0..(c.build.MAX_PD - 1) |-> pd_weight(c, d, i[d])]
        RECURSIVE Prod(_)
        Prod(d) == IF d = 0 THEN 1 ELSE t[d - 1] * Prod(d - 1)
    IN  Prod(c.build.MAX_PD)

\* C1: the slices of a partition of [0, num_eval), called in increasing
\* order on one buffer, leave in result[0..nq] what the single call
\* (0, num_eval) leaves, in every variant and for any form_volume and
\* INVALID
C1_Resumable ==
    (pc = "idle" /\ chain = details.num_eval) =>
        result = KERNEL_NAME(Args, 0, details.num_eval, result_in)

\* C2: a call with any 0 <= pd_start <= pd_stop <= num_eval, the empty
\* slice and MAX_PD = 0 included, evaluates the points of linear index
\* pd_start, ..., pd_stop - 1, each once, in this order, and no other
C2_SliceExact == Returned => visited = Slice(fr)

\* C3: at a visited point of weight product w, if INVALID holds of the
\* parameter block or w <= cutoff then no result[k] and not pd_norm
\* changes; otherwise pd_norm grows by w * form_volume and every result[k]
\* by w * scattering_k
C3_Accumulate ==
    pc = "advance" =>
        IF INVALID(build, last.lv) \/ PointWeight(Args, last.i) <= cutoff
        THEN /\ fr.pd_norm = last.pd_norm
             /\ \A k \in 0..(nq - 1) : result[k] = last.result[k]
        ELSE /\ fr.pd_norm = last.pd_norm
                    + PointWeight(Args, last.i) * form_volume(build, last.lv)
             /\ \A k \in 0..(nq - 1) :
                    result[k] =
                        FAdd(last.result[k],
                             FMul(PointWeight(Args, last.i),
                                  Scattering(Args, fr, last.lv, k).s))

\* a point whose weight product passes the cutoff although the weight of
\* one of its dimensions alone does not
C3_Witness ==
    /\ pc = "advance"
    /\ ~INVALID(build, last.lv)
    /\ PointWeight(Args, last.i) > cutoff
    /\ \E d \in 0..(build.MAX_PD - 1) : pd_weight(Args, d, last.i[d]) <= cutoff
    /\ fr.pd_norm # last.pd_norm

\* C4: after a call with pd_start = 0 result[0..nq] is what the points of
\* the call added to zeros, whatever the buffer held; after a call with
\* pd_start > 0 it is what they added to the buffer's contents; and
\* result[nq] is the running pd_norm
C4_Seeding ==
    Returned =>
        /\ result[nq] = fr.pd_norm
        /\ result[nq] = (IF fr.pd_start = 0 THEN 0 ELSE result_in[nq]) + added[nq]
        /\ \A k \in 0..(nq - 1) :
              result[k] = FAdd(IF fr.pd_start = 0 THEN 0 ELSE result_in[k],
                               added[k])

\* a call from 0 on a buffer of nonzero contents, and a resumed call,
\* each with a point that contributed
C4_Witness ==
    /\ Returned
    /\ added[nq] > 0
    /\ \A k \in 0..nq : result_in[k] # 0
    /\ ncalls = 2
    /\ fr.pd_start > 0

\* the pool with the weights of the active dimensions multiplied by m
ScaledWeights(c, m) ==
    LET first == c.build.NUM_VALUES + c.details.num_weights
        of(d) == {first + c.details.pd_offset[d] + i :
                     i \in 0..(c.details.pd_length[d] - 1)}
        active == UNION {of(d) : d \in 0..(c.details.num_active - 1)}
    IN  [x \in DOMAIN c.values |->
            IF x \in active THEN m * c.values[x] ELSE c.values[x]]

Times(m, res) == [k \in DOMAIN res |-> FMul(m, res[k])]

FullCall ==
    Returned /\ ncalls = 1 /\ fr.pd_start = 0 /\ fr.pd_stop = details.num_eval

\* C5 as stated: for a full evaluation, multiplying every weight by m > 0
\* multiplies every result[k] and result[nq] by m^num_active, for every
\* cutoff
C5_WeightLinearAnyCutoff ==
    FullCall =>
        \A m \in 2..MaxScale :
            KERNEL_NAME([Args EXCEPT !.values = ScaledWeights(Args, m)],
                        0, details.num_eval, result_in)
                = Times(m ^ details.num_active, result)

\* C5: for a full evaluation, multiplying every weight by m > 0 and the
\* cutoff by m^num_active multiplies every result[k] and result[nq] by
\* m^num_active
C5_WeightLinear ==
    FullCall =>
        \A m \in 2..MaxScale :
            KERNEL_NAME([Args EXCEPT !.values = ScaledWeights(Args, m),
                                     !.cutoff = (m ^ details.num_active) * cutoff],
                        0, details.num_eval, result_in)
                = Times(m ^ details.num_active, result)

\* the points of the hypercube
Points ==
    {i \in [0..(build.MAX_PD - 1) -> 0..(MaxPdLen - 1)] :
        \A d \in 0..(build.MAX_PD - 1) : i[d] < details.pd_length[d]}

\* a full evaluation over two active dimensions with a positive cutoff
\* that cut one point and let another pass
C5_Witness ==
    /\ FullCall
    /\ details.num_active = 2
    /\ cutoff > 0
    /\ \E i \in Points : PointWeight(Args, i) <= cutoff
    /\ result[nq] > 0

\* every magnetic triple of the pool is 0
ZeroField ==
    \A x \in (build.NUM_PARS + 5)..(build.NUM_VALUES - 1) : values[x] = 0

\* C6: when every magnetic triple is 0, the magnetic kernel leaves in
\* result[0..nq] what the non-magnetic kernel of the same dispatch leaves
\* on the same descriptor, pool, q vector and cutoff, for every up_frac_i
\* and up_frac_f
C6_ZeroField ==
    (Returned /\ build.MAGNETIC /\ ZeroField) =>
        result = KERNEL_NAME([Args EXCEPT !.build.MAGNETIC = FALSE],
                             fr.pd_start, fr.pd_stop, result_in)

\* C7: with the q loop fanned out over threads in magnetic mode, the
\* form-factor call of a thread sees in the SLD slots what this thread
\* wrote there for its own q, spin and axis
C7_OwnSLDs ==
    pc = "qloop" =>
        \A k \in 0..(nq - 1) :
            wk[k].at = "call" =>
                \A j \in 0..(build.NUM_MAGNETIC - 1) :
                    fr.local_values[build.slds[j]] = wk[k].wrote[build.slds[j]]

\* C8: the value handed to sqrt in the oriented-symmetric transform is
\* never negative: a negative radicand is replaced by 0 first
C8_RadicandClamped ==
    pc = "advance" => \A r \in last.rads : r >= 0

\* the slots polydispersity drives
Driven == {details.pd_par[d] : d \in 0..(build.MAX_PD - 1)}

\* C9: when INVALID and form_volume are evaluated at a point, magnetic or
\* not, local_values[pd_par[d]] = pd_value[d][i_d] for every d and every
\* other slot holds its nominal values[2 + slot]
C9_BlockAtPoint ==
    pc = "body" =>
        /\ \A d \in 0..(build.MAX_PD - 1) :
              fr.local_values[details.pd_par[d]] = pd_value(Args, d, fr.i[d])
        /\ \A s \in (0..(build.NUM_PARS - 1)) \ Driven :
              fr.local_values[s] = values[2 + s]

\* C10: the SLD rewrite of the j-th magnetic parameter reads its triple at
\* NUM_PARS+5+3j, on the unrolled path for NUM_MAGNETIC <= 3 as in the
\* loop over slds[], and writes slot slds[j]
C10_TripleLayout ==
    (pc = "advance" /\ build.MAGNETIC /\ fr.pd_norm # last.pd_norm) =>
        \A j \in 0..(build.NUM_MAGNETIC - 1) :
            /\ MOffset(build, j) = build.NUM_PARS + 5 + 3 * j
            /\ SldOffset(build, j) = build.slds[j]

\* the product of the pool weights of the active dimensions at the point i
ActiveWeight(c, i) ==
    LET first == c.build.NUM_VALUES + c.details.num_weights
        t == [d \in 0..(c.details.num_active - 1) |->
                c.values[first + c.details.pd_offset[d] + i[d]]]
        RECURSIVE Prod(_)
        Prod(d) == IF d = 0 THEN 1 ELSE t[d - 1] * Prod(d - 1)
    IN  Prod(c.details.num_active)

\* the dimensions beyond num_active
Inactive == details.num_active..(build.MAX_PD - 1)

\* C11: at every cube point of every call, whatever pd_start, every
\* dimension d with num_active <= d < MAX_PD has i_d = 0 and puts the
\* factor 1 into the weight product that is tested against the cutoff and
\* used in the accumulation
C11_InactiveDims ==
    /\ pc = "body" =>
          /\ \A d \in Inactive :
                fr.i[d] = 0 /\ fr.weight[d] = WeightAbove(Args, fr, d)
          /\ Weight0(Args, fr) = ActiveWeight(Args, fr.i)
    /\ pc = "advance" => \A d \in Inactive : last.i[d] = 0

\* a later point of a resumed call over one active and one inactive
\* dimension, its weight above the cutoff
C11_Witness ==
    /\ pc = "body"
    /\ details.num_active >= 1
    /\ details.num_active < build.MAX_PD
    /\ fr.pd_start > 0
    /\ fr.step > fr.pd_start
    /\ Weight0(Args, fr) > cutoff

=============================================================================
